---------------------------- MODULE Spec2Model ----------------------------
(***************************************************************************)
(* A model of saleae/register-decoder (register_map.py): the address       *)
(* sorted register schema built by RegisterMapMeta.__init__, its two       *)
(* binary-search queries, and the observation buffer of RegisterMap        *)
(* (observe / deserialize).  Python lists and bytearrays are sequences;    *)
(* Python index i is sequence index i + 1.                                 *)
(***************************************************************************)
EXTENDS Integers, Sequences, FiniteSets, TLC

\* Bounds of the model.
MaxAddress == 2
MaxWidth == 2
MaxRegisters == 2
MaxUnitWidth == 2
MaxDataUnits == 2
MaxObserves == 2
MaxIntBytes == 2
MaxBindings == 3

VARIABLES
    phase,                  \* "class" | "raised" | "defined" | "instance"
    address_byte_width,     \* RegisterMap.address_byte_width (class attribute)
    sorted_registers,       \* RegisterMapMeta._sorted_registers
    address_max,            \* RegisterMap._address_max
    internal_state,         \* RegisterMap._internal_state
    internal_state_mask,    \* RegisterMap._internal_state_mask
    result,                 \* the last call: its arguments, return value, exception
    supplied,               \* history: per unit of the address space, the bytes the latest observe gave it
    observes,               \* history: number of observe calls made
    register_name,          \* Register._name of each Register object of the pool
    bindings                \* history: every execution of value._name = name

vars == <<phase, address_byte_width, sorted_registers, address_max,
          internal_state, internal_state_mask, result, supplied, observes,
          register_name, bindings>>

Min(a, b) == IF a < b THEN a ELSE b

Max(a, b) == IF a < b THEN b ELSE a

\* Python's s[lo:hi] for 0 <= lo, 0 <= hi: both ends clamped to len(s).
PySlice(s, lo, hi) == SubSeq(s, Min(lo, Len(s)) + 1, Min(hi, Len(s)))

\* Mutant: the slice of a copy is assigned, and the bytearray keeps its bytes.
PySliceAssignCopy(s, lo, hi, v) == s

\* Python's s[lo:hi] = v on a bytearray: the slice is replaced by v.
PySliceAssign(s, lo, hi, v) ==
    LET l == Min(lo, Len(s))
        h == Max(l, Min(hi, Len(s)))
    IN  SubSeq(s, 1, l) \o v \o SubSeq(s, h + 1, Len(s))

\* list.insert(i, x) for 0 <= i <= len(s).
PyInsert(s, i, x) == SubSeq(s, 1, i) \o <<x>> \o SubSeq(s, i + 1, Len(s))

\* Register(address, address_width=..., value_type=..., byte_order=..., signed=...)
\* with _name as stamped by the metaclass.
Register(name, address, address_width, value_type, byte_order, signed) ==
    [name |-> name, address |-> address, address_width |-> address_width,
     value_type |-> value_type, byte_order |-> byte_order, signed |-> signed]

RECURSIVE BinarySearchLeftLoop(_, _, _, _)
BinarySearchLeftLoop(regs, address, left, right) ==
    IF left < right
    THEN LET mid == (left + right) \div 2
         IN  IF regs[mid + 1].address < address
             THEN BinarySearchLeftLoop(regs, address, mid + 1, right)
             ELSE BinarySearchLeftLoop(regs, address, left, mid)
    ELSE left

\* Mutant: the search starts with right = len - 1.
register_binary_search_left_short(regs, address) ==
    BinarySearchLeftLoop(regs, address, 0, Max(Len(regs) - 1, 0))

\* The first index whose register has address >= the given address.
register_binary_search_left(regs, address) ==
    BinarySearchLeftLoop(regs, address, 0, Len(regs))

RECURSIVE BinarySearchRegEndRightLoop(_, _, _, _)
BinarySearchRegEndRightLoop(regs, address, left, right) ==
    IF left < right
    THEN LET mid == (left + right) \div 2
         IN  IF regs[mid + 1].address + regs[mid + 1].address_width > address
             THEN BinarySearchRegEndRightLoop(regs, address, left, mid)
             ELSE BinarySearchRegEndRightLoop(regs, address, mid + 1, right)
    ELSE right

\* Mutant: the search starts with right = len - 1.
register_binary_search_reg_end_right_short(regs, address) ==
    BinarySearchRegEndRightLoop(regs, address, 0, Max(Len(regs) - 1, 0))

\* The first index whose register has address + address_width > the given address.
register_binary_search_reg_end_right(regs, address) ==
    BinarySearchRegEndRightLoop(regs, address, 0, Len(regs))

\* Mutant: the candidate is returned without the check that it starts at or
\* before the address.
register_containing_unchecked(regs, address) ==
    LET register_index == register_binary_search_reg_end_right(regs, address)
    IN  IF register_index = Len(regs) THEN <<>> ELSE <<regs[register_index + 1]>>

\* register_containing: <<>> stands for None, <<r>> for the register r.
register_containing(regs, address) ==
    LET register_index == register_binary_search_reg_end_right(regs, address)
    IN  IF register_index = Len(regs)
        THEN <<>>
        ELSE LET register == regs[register_index + 1]
             IN  IF register.address <= address
                    /\ register.address + register.address_width > address
                 THEN <<register>>
                 ELSE <<>>

\* registers_intersecting(slice(start, stop)).
registers_intersecting(regs, start, stop) ==
    LET left_index == register_binary_search_reg_end_right(regs, start)
        right_index == register_binary_search_left(regs, stop)
    IN  IF left_index < right_index
        THEN PySlice(regs, left_index, right_index)
        ELSE <<>>

\* The largest address + address_width a declared register can have.
AddressLimit == MaxAddress + MaxWidth

\* Register objects created ahead of the class statements and shared by them:
\* one Register(address, address_width=w) per address and width, named by the
\* pair <<address, w>>.
RegisterObjects == (0 .. MaxAddress) \X (1 .. MaxWidth)

\* The address units a schema of the model can hold.
Units == 0 .. (AddressLimit - 1)

\* What a call leaves behind: its arguments, its return value, its exception.
\* kind is the Python type of the return value: "None", "list", "bytes", "int".
NoResult ==
    [op |-> "none", exc |-> "none", kind |-> "none", regs |-> <<>>,
     bytes |-> <<>>, int |-> 0, address |-> 0, stop |-> 0, data |-> <<>>,
     names |-> <<>>]

\* The attribute names of the class body, in declaration order.
NameOf(k) ==
    IF k = 1 THEN "status" ELSE IF k = 2 THEN "data" ELSE "reg" \o ToString(k)

\* One iteration of the loop of RegisterMapMeta.__init__ over the class body:
\* the next attribute is a Register(address, address_width=..., ...).
MetaInitStep(address, address_width, value_type, byte_order, signed) ==
    /\ phase = "class"
    /\ Len(sorted_registers) < MaxRegisters
    /\ LET name == NameOf(Len(sorted_registers) + 1)
           value == Register(name, address, address_width, value_type, byte_order, signed)
           intersecting ==
               registers_intersecting(sorted_registers, address, address + address_width)
           call == [NoResult EXCEPT !.op = "class", !.address = address,
                                    !.stop = address + address_width]
       IN  IF intersecting # <<>>
           THEN /\ phase' = "raised"
                /\ result' = [call EXCEPT !.exc = "ValueError",
                                          !.names = <<name, intersecting[1].name>>]
                /\ UNCHANGED sorted_registers
           ELSE /\ sorted_registers' =
                       PyInsert(sorted_registers,
                                register_binary_search_left(sorted_registers, address),
                                value)
                /\ result' = [call EXCEPT !.names = <<name>>]
                /\ UNCHANGED phase
    /\ UNCHANGED <<address_byte_width, address_max, internal_state,
                   internal_state_mask, supplied, observes,
                   register_name, bindings>>

\* A raw-bytes register (value_type defaults to bytes) is declared.
Declare ==
    \E address \in 0 .. MaxAddress, address_width \in 1 .. MaxWidth :
        MetaInitStep(address, address_width, "bytes", "None", "None")

\* The class body is exhausted: the class statement completes.
FinishClass ==
    /\ phase = "class"
    /\ phase' = "defined"
    /\ UNCHANGED <<address_byte_width, sorted_registers, address_max, internal_state,
                   internal_state_mask, result, supplied, observes,
                   register_name, bindings>>

RECURSIVE MaxEnd(_, _)
MaxEnd(regs, default) ==
    IF regs = <<>> THEN default
    ELSE Max(regs[1].address + regs[1].address_width, MaxEnd(Tail(regs), default))

\* RegisterMap.__init__.
New ==
    /\ phase = "defined"
    /\ phase' = "instance"
    /\ address_max' = MaxEnd(sorted_registers, 0)
    /\ internal_state' = [i \in 1 .. (address_max' * address_byte_width) |-> 0]
    /\ internal_state_mask' = [i \in 1 .. address_max' |-> FALSE]
    /\ result' = [NoResult EXCEPT !.op = "new"]
    /\ UNCHANGED <<address_byte_width, sorted_registers, supplied, observes,
                   register_name, bindings>>

\* for i in range(address, end_address): mask[i] = True, which raises IndexError
\* at the first i past the end of the list.
RECURSIVE MaskLoop(_, _, _)
MaskLoop(mask, i, end_address) ==
    IF i >= end_address THEN [mask |-> mask, exc |-> "none"]
    ELSE IF i >= Len(mask) THEN [mask |-> mask, exc |-> "IndexError"]
    ELSE MaskLoop([mask EXCEPT ![i + 1] = TRUE], i + 1, end_address)

\* Mutant: the mask is rebuilt for each observation.
mark_observed_fresh(mask, address, end_address) ==
    MaskLoop([i \in 1 .. Len(mask) |-> FALSE], address, end_address)

\* The mask after the loop, and the exception that ended it.
mark_observed(mask, address, end_address) == MaskLoop(mask, address, end_address)

\* RegisterMap.observe(address, data).
observe(address, data) ==
    /\ phase = "instance"
    /\ observes < MaxObserves
    /\ observes' = observes + 1
    /\ LET call == [NoResult EXCEPT !.op = "observe", !.address = address,
                                    !.data = data]
       IN  IF Len(data) < 1 \/ Len(data) % address_byte_width # 0
           THEN /\ result' = [call EXCEPT !.exc = "ValueError"]
                /\ UNCHANGED <<internal_state, internal_state_mask, supplied>>
           ELSE LET end_address == address + Len(data) \div address_byte_width
                    ranged == [call EXCEPT !.stop = end_address]
                IN  /\ supplied' =
                           [k \in Units |->
                               IF address <= k /\ k < end_address /\ k < address_max
                               THEN PySlice(data, (k - address) * address_byte_width,
                                            (k - address + 1) * address_byte_width)
                               ELSE supplied[k]]
                    /\ IF address >= address_max
                       THEN /\ result' = [ranged EXCEPT !.kind = "None"]
                            /\ UNCHANGED <<internal_state, internal_state_mask>>
                       ELSE LET start_bytes == address * address_byte_width
                                end_bytes ==
                                    Min(end_address, address_max) * address_byte_width
                                loop == mark_observed(internal_state_mask, address, end_address)
                            IN  /\ internal_state' =
                                       PySliceAssign(internal_state, start_bytes, end_bytes,
                                                     PySlice(data, 0, end_bytes - start_bytes))
                                /\ internal_state_mask' = loop.mask
                                /\ result' =
                                       IF loop.exc # "none"
                                       THEN [ranged EXCEPT !.exc = loop.exc]
                                       ELSE [ranged EXCEPT
                                                !.kind = "list",
                                                !.regs = registers_intersecting(
                                                    sorted_registers, address, end_address)]
    /\ UNCHANGED <<phase, address_byte_width, sorted_registers, address_max,
                   register_name, bindings>>

\* A payload of n bytes, the first two 0xAB, 0xCD.
DataBytes(n) == [i \in 1 .. n |-> (171 + 34 * (i - 1)) % 256]

\* A bus transaction is fed in: any address, a payload of up to MaxDataUnits
\* address units; an empty payload and one with a byte too many are fed in too.
Observe ==
    \E address \in 0 .. (AddressLimit + 1), n \in 0 .. MaxDataUnits, ragged \in 0 .. 1 :
        /\ address <= address_max + 1
        /\ ragged < address_byte_width
        /\ observe(address, DataBytes(n * address_byte_width + ragged))

RECURSIVE Reverse(_)
Reverse(s) == IF s = <<>> THEN <<>> ELSE Append(Reverse(Tail(s)), s[1])

RECURSIVE Pow256(_)
Pow256(n) == IF n = 0 THEN 1 ELSE 256 * Pow256(n - 1)

\* The unsigned value of big-endian bytes.
RECURSIVE BigEndianValue(_)
BigEndianValue(s) ==
    IF s = <<>> THEN 0 ELSE 256 * BigEndianValue(SubSeq(s, 1, Len(s) - 1)) + s[Len(s)]

\* Mutant: the bytes are read as unsigned whatever the register's signedness.
from_bytes_unsigned(raw_data, byte_order, signed) ==
    BigEndianValue(IF byte_order = "big" THEN raw_data ELSE Reverse(raw_data))

\* int.from_bytes(raw_data, byteorder=..., signed=...).
from_bytes(raw_data, byte_order, signed) ==
    LET big == IF byte_order = "big" THEN raw_data ELSE Reverse(raw_data)
        magnitude == BigEndianValue(big)
    IN  IF signed = "True" /\ big # <<>> /\ big[1] >= 128
        THEN magnitude - Pow256(Len(big))
        ELSE magnitude

\* The n big-endian bytes of 0 <= m < 256^n.
RECURSIVE BigEndianBytes(_, _)
BigEndianBytes(m, n) ==
    IF n = 0 THEN <<>> ELSE Append(BigEndianBytes(m \div 256, n - 1), m % 256)

\* int.to_bytes(length, byteorder=..., signed=...) for a representable value
\* (two's complement when negative).
to_bytes(value, length, byte_order, signed) ==
    LET m == IF value < 0 THEN value + Pow256(length) ELSE value
        big == BigEndianBytes(m, length)
    IN  IF byte_order = "big" THEN big ELSE Reverse(big)

\* Register.deserialize(raw_data): the value and its Python type.  Registers of
\* the model are raw-bytes or automatic-integer registers.
register_deserialize(register, raw_data) ==
    IF register.value_type = "bytes"
    THEN [kind |-> "bytes", bytes |-> raw_data, int |-> 0]
    ELSE [kind |-> "int", bytes |-> <<>>,
          int |-> from_bytes(raw_data, register.byte_order, register.signed)]

\* Mutant: any() instead of all().
AnyObserved(mask, register) ==
    LET units == PySlice(mask, register.address,
                         register.address + register.address_width)
    IN  \E i \in 1 .. Len(units) : units[i]

\* all(self._internal_state_mask[address : address + address_width])
AllObserved(mask, register) ==
    LET units == PySlice(mask, register.address,
                         register.address + register.address_width)
    IN  \A i \in 1 .. Len(units) : units[i]

\* RegisterMap.deserialize(register), for a register of the instance's schema.
deserialize(register) ==
    /\ phase = "instance"
    /\ LET call == [NoResult EXCEPT !.op = "deserialize",
                                    !.address = register.address,
                                    !.stop = register.address + register.address_width,
                                    !.regs = <<register>>]
       IN  IF ~AllObserved(internal_state_mask, register)
           THEN result' = [call EXCEPT !.exc = "RegisterNotObserved",
                                       !.names = <<register.name>>]
           ELSE LET start_bytes == register.address * address_byte_width
                    end_bytes == start_bytes + register.address_width * address_byte_width
                    raw_data == PySlice(internal_state, start_bytes, end_bytes)
                    value == register_deserialize(register, raw_data)
                IN  result' = [call EXCEPT !.kind = value.kind, !.bytes = value.bytes,
                                           !.int = value.int, !.data = raw_data]
    /\ UNCHANGED <<phase, address_byte_width, sorted_registers, address_max,
                   internal_state, internal_state_mask, supplied, observes,
                   register_name, bindings>>

Deserialize ==
    \E i \in 1 .. Len(sorted_registers) : deserialize(sorted_registers[i])

\* The class statement begins: an empty class body under RegisterMap, whose own
\* _sorted_registers is empty.
Init ==
    /\ phase = "class"
    /\ address_byte_width \in {1, MaxUnitWidth}
    /\ sorted_registers = <<>>
    /\ address_max = 0
    /\ internal_state = <<>>
    /\ internal_state_mask = <<>>
    /\ result = NoResult
    /\ supplied = [k \in Units |-> <<>>]
    /\ observes = 0
    /\ register_name = [object \in RegisterObjects |-> "None"]
    /\ bindings = <<>>

Next == Declare \/ FinishClass \/ New \/ Observe \/ Deserialize

Spec == Init /\ [][Next]_vars

\* ---- The schema's queries, called on the finished class ----

\* cls.register_containing(address) is called.
RegisterContaining ==
    \E address \in 0 .. (AddressLimit + 1) :
        /\ phase = "defined"
        /\ LET found == register_containing(sorted_registers, address)
           IN  result' = [NoResult EXCEPT
                             !.op = "register_containing", !.address = address,
                             !.kind = IF found = <<>> THEN "None" ELSE "Register",
                             !.regs = found]
        /\ UNCHANGED <<phase, address_byte_width, sorted_registers, address_max,
                       internal_state, internal_state_mask, supplied, observes,
                   register_name, bindings>>

\* cls.registers_intersecting(slice(start, stop)) is called: any two ends,
\* empty and inverted ranges included.
RegistersIntersecting ==
    \E start \in 0 .. (AddressLimit + 1), stop \in 0 .. (AddressLimit + 1) :
        /\ phase = "defined"
        /\ result' = [NoResult EXCEPT
                         !.op = "registers_intersecting", !.address = start,
                         !.stop = stop, !.kind = "list",
                         !.regs = registers_intersecting(sorted_registers, start, stop)]
        /\ UNCHANGED <<phase, address_byte_width, sorted_registers, address_max,
                       internal_state, internal_state_mask, supplied, observes,
                   register_name, bindings>>

NextSchema == Declare \/ FinishClass \/ RegisterContaining \/ RegistersIntersecting

\* Class construction and the schema's queries.
SpecSchema == Init /\ [][NextSchema]_vars

\* ---- The integer round trip of test_parsing.py ----

\* The class body holds one automatic-integer register:
\* Register(address, address_width=w, value_type=int, byte_order=..., signed=...).
DeclareInt ==
    \E address \in 0 .. MaxAddress, address_width \in 1 .. MaxWidth,
       byte_order \in {"little", "big"}, signed \in {"True", "False"} :
        /\ sorted_registers = <<>>
        /\ address_width * address_byte_width <= MaxIntBytes
        /\ MetaInitStep(address, address_width, "int", byte_order, signed)

\* Integers to encode: the values around zero, every sign boundary and every
\* power of 256, and around 0x1234 and 0x123456, of either sign.
IntCandidates ==
    {s * (b + d) : s \in {-1, 1}, d \in {-1, 0, 1},
                   b \in {1, 128, 256, 4660, 32768, 65536, 1193046, 8388608, 16777216}}

\* The sampled integers representable in byte_count bytes.
IntValues(byte_count, signed) ==
    LET lo == IF signed = "True" THEN -(Pow256(byte_count) \div 2) ELSE 0
        hi == IF signed = "True" THEN (Pow256(byte_count) \div 2) - 1
              ELSE Pow256(byte_count) - 1
    IN  {v \in IntCandidates \cup {lo, lo + 1, hi - 1, hi} : lo <= v /\ v <= hi}

\* reg_map.observe(address, value.to_bytes(byte_count, byteorder=..., signed=...))
ObserveInt ==
    /\ Len(sorted_registers) = 1
    /\ LET register == sorted_registers[1]
           byte_count == register.address_width * address_byte_width
       IN  \E value \in IntValues(byte_count, register.signed) :
               observe(register.address,
                       to_bytes(value, byte_count, register.byte_order, register.signed))

NextInt == DeclareInt \/ FinishClass \/ New \/ ObserveInt \/ Deserialize

SpecInt == Init /\ [][NextInt]_vars

\* ---- Observations inside the address space ----

\* A payload of n bytes in which a byte tells its place in the payload and the
\* payload's length; the payload of two bytes is 0xAB, 0xCD.
DistinctBytes(n) == [i \in 1 .. n |-> (157 + 34 * (i - 1) + 7 * n) % 256]

\* A well-formed observe whose range [address, end_address) lies inside the
\* declared address space.
ObserveInside ==
    \E address \in Units, n \in 1 .. MaxDataUnits :
        /\ address + n <= address_max
        /\ observe(address, DistinctBytes(n * address_byte_width))

NextInside == Declare \/ FinishClass \/ New \/ ObserveInside \/ Deserialize

SpecInside == Init /\ [][NextInside]_vars


\* The list holds references to Register objects: the name read through an
\* entry is the object's _name of the moment.
LiveRegisters(regs, names) ==
    [i \in 1 .. Len(regs) |->
        [regs[i] EXCEPT !.name = names[<<regs[i].address, regs[i].address_width>>]]]

\* One iteration of the loop of RegisterMapMeta.__init__ whose attribute value
\* is a Register object of the pool, bound before or not.
MetaInitBind(object) ==
    /\ phase = "class"
    /\ Len(sorted_registers) < MaxRegisters
    /\ Len(bindings) < MaxBindings
    /\ LET name == NameOf(Len(sorted_registers) + 1)
           address == object[1]
           address_width == object[2]
           \* value._name = name
           stamped == [register_name EXCEPT ![object] = name]
           registers == LiveRegisters(sorted_registers, stamped)
           value == Register(name, address, address_width, "bytes", "None", "None")
           intersecting == registers_intersecting(registers, address, address + address_width)
           call == [NoResult EXCEPT !.op = "class", !.address = address,
                                    !.stop = address + address_width]
       IN  /\ register_name' = stamped
           /\ bindings' = Append(bindings,
                                 [object |-> object, previous |-> register_name[object],
                                  assigned |-> name, raised |-> intersecting # <<>>])
           /\ IF intersecting # <<>>
              THEN /\ phase' = "raised"
                   /\ result' = [call EXCEPT !.exc = "ValueError",
                                             !.names = <<name, intersecting[1].name>>]
                   /\ sorted_registers' = registers
              ELSE /\ sorted_registers' =
                          PyInsert(registers,
                                   register_binary_search_left(registers, address), value)
                   /\ result' = [call EXCEPT !.names = <<name>>]
                   /\ UNCHANGED phase
    /\ UNCHANGED <<address_byte_width, address_max, internal_state,
                   internal_state_mask, supplied, observes>>

\* A class body attribute is a Register object of the pool.
DeclareShared == \E object \in RegisterObjects : MetaInitBind(object)

\* Another class statement begins, after one that completed or raised: its
\* _sorted_registers starts as a copy of its parent's, which is RegisterMap's
\* empty list or the list of the class just defined.
BeginClass ==
    /\ phase \in {"defined", "raised"}
    /\ phase' = "class"
    /\ \/ sorted_registers' = <<>>
       \/ phase = "defined" /\ sorted_registers # <<>> /\ UNCHANGED sorted_registers
    /\ result' = NoResult
    /\ UNCHANGED <<address_byte_width, address_max, internal_state,
                   internal_state_mask, supplied, observes, register_name, bindings>>

NextNames == DeclareShared \/ FinishClass \/ BeginClass

\* Class statements over shared Register objects.
SpecNames == Init /\ [][NextNames]_vars

\* ---- Properties ----

\* The registers of the schema, as a set.
Registers == {sorted_registers[i] : i \in 1 .. Len(sorted_registers)}

\* The range of register R holds the address.
Contains(R, address) == R.address <= address /\ address < R.address + R.address_width

\* The range of register R intersects [start, stop) by the schema's rule.
Overlaps(R, start, stop) == R.address < stop /\ R.address + R.address_width > start

\* The registers of the schema that overlap [start, stop), in list order.
Overlapping(start, stop) ==
    LET Hit(R) == Overlaps(R, start, stop) IN SelectSeq(sorted_registers, Hit)

\* A sequence of registers in strictly ascending address order.
Ascending(regs) ==
    \A i \in 1 .. Len(regs), j \in 1 .. Len(regs) :
        i < j => regs[i].address < regs[j].address

\* The last call was a well-formed observe (it passed the two payload checks).
WellFormedObserve == result.op = "observe" /\ result.exc # "ValueError"

\* C1: on a finished schema, register_containing(a) returns R for every address
\* a in the range of a register R, and None for an address in no register's range.
C1_RegisterContaining ==
    result.op = "register_containing" =>
        /\ \A R \in Registers : Contains(R, result.address) => result.regs = <<R>>
        /\ (\A R \in Registers : ~Contains(R, result.address)) =>
               (result.regs = <<>> /\ result.kind = "None")

\* C1 witness: in a two-register schema the query address lies past the first
\* unit of a multi-unit register, which is returned.
C1_Witness ==
    /\ result.op = "register_containing"
    /\ Len(sorted_registers) = 2
    /\ Len(result.regs) = 1
    /\ result.regs[1].address < result.address

\* C2: registers_intersecting(slice(start, stop)) returns exactly the registers
\* with address < stop and address + address_width > start, in ascending order.
C2_RegistersIntersecting ==
    result.op = "registers_intersecting" =>
        /\ {result.regs[i] : i \in 1 .. Len(result.regs)} =
               {R \in Registers : Overlaps(R, result.address, result.stop)}
        /\ Ascending(result.regs)

\* C2 witness: a range that starts inside one register and ends inside the
\* next returns both.
C2_Witness ==
    /\ result.op = "registers_intersecting"
    /\ Len(result.regs) = 2
    /\ result.regs[1].address < result.address
    /\ result.stop < result.regs[2].address + result.regs[2].address_width

\* C3: a declared register whose range intersects an earlier one fails the class
\* statement with the overlap error naming the new and a conflicting register,
\* in either declaration order; an accepted register is in the schema; and the
\* schema's registers are in strictly ascending order with disjoint ranges.
C3_OverlapRejected ==
    /\ Ascending(sorted_registers)
    /\ \A i \in 1 .. Len(sorted_registers) - 1 :
           sorted_registers[i].address + sorted_registers[i].address_width
               <= sorted_registers[i + 1].address
    /\ (result.op = "class" /\ phase # "raised") =>
           /\ result.exc = "none"
           /\ \E R \in Registers :
                  /\ R.name = result.names[1]
                  /\ R.address = result.address
                  /\ R.address + R.address_width = result.stop
           /\ \A R \in Registers :
                  R.name # result.names[1] => ~Overlaps(R, result.address, result.stop)
    /\ phase = "raised" =>
           /\ result.op = "class" /\ result.exc = "ValueError"
           /\ Len(result.names) = 2
           /\ result.names[1] = NameOf(Len(sorted_registers) + 1)
           /\ \E R \in Registers :
                  R.name = result.names[2] /\ Overlaps(R, result.address, result.stop)

\* C3 witness: the second declared register starts below the first and runs
\* into it, and the class statement has failed.
C3_Witness ==
    /\ phase = "raised"
    /\ result.names = <<"data", "status">>
    /\ result.address < sorted_registers[1].address

\* The address units of [start, stop) all hold bytes supplied by an observe.
AllSupplied(start, stop) == \A k \in start .. (stop - 1) : supplied[k] # <<>>

\* C4: deserialize(R) returns a value only if every unit of R has been covered
\* by an earlier observe; otherwise it raises RegisterNotObserved and returns
\* nothing.
C4_DeserializeNeedsFullObservation ==
    result.op = "deserialize" =>
        /\ result.exc = "none" => AllSupplied(result.address, result.stop)
        /\ ~AllSupplied(result.address, result.stop) =>
               /\ result.exc = "RegisterNotObserved"
               /\ result.kind = "none"
               /\ result.bytes = <<>>

\* C4 witness: a two-unit register with one unit observed is deserialized, and
\* the call fails.
C4_Witness ==
    /\ result.op = "deserialize"
    /\ result.exc = "RegisterNotObserved"
    /\ result.stop = result.address + 2
    /\ \E k \in result.address .. (result.stop - 1) : supplied[k] # <<>>

RECURSIVE SuppliedBytes(_, _)
\* The bytes the latest observes supplied for the units of [start, stop).
SuppliedBytes(start, stop) ==
    IF start >= stop THEN <<>> ELSE supplied[start] \o SuppliedBytes(start + 1, stop)

\* C5: once the encoding of a representable integer v has been observed at the
\* integer register's address, deserialize returns exactly v.
C5_IntegerRoundTrip ==
    (result.op = "deserialize" /\ observes > 0) =>
        LET register == result.regs[1]
            byte_count == register.address_width * address_byte_width
        IN  /\ result.exc = "none"
            /\ result.kind = "int"
            /\ \E v \in IntValues(byte_count, register.signed) :
                   /\ SuppliedBytes(result.address, result.stop) =
                          to_bytes(v, byte_count, register.byte_order, register.signed)
                   /\ result.int = v

\* C5 witness: a negative value of a signed little-endian register of two bytes
\* whose bytes differ has been read back.
C5_Witness ==
    /\ result.op = "deserialize"
    /\ result.kind = "int"
    /\ result.int < -1
    /\ Len(result.data) = 2
    /\ result.data[1] # result.data[2]
    /\ result.regs[1].byte_order = "little"

\* C6: a well-formed observe at an address inside the address space returns
\* the registers overlapping [address, end_address), in ascending order.
C6_ObserveReturnsOverlapping ==
    (WellFormedObserve /\ result.address < address_max) =>
        /\ result.exc = "none"
        /\ result.kind = "list"
        /\ result.regs = Overlapping(result.address, result.stop)
        /\ Ascending(result.regs)

\* C7: a well-formed observe at an address >= the address space size does not
\* raise and returns an empty sequence of registers.
C7_OutOfRangeReturnsEmpty ==
    (WellFormedObserve /\ result.address >= address_max) =>
        /\ result.exc = "none"
        /\ result.kind = "list"
        /\ result.regs = <<>>

\* C8: a well-formed observe that starts inside the address space and runs past
\* its end does not raise, marks the in-range units and keeps the lengths.
C8_OverrunClamped ==
    (WellFormedObserve /\ result.address < address_max /\ address_max < result.stop) =>
        /\ result.exc = "none"
        /\ \A k \in result.address .. (address_max - 1) : internal_state_mask[k + 1]
        /\ Len(internal_state_mask) = address_max
        /\ Len(internal_state) = address_max * address_byte_width

\* C9: no call on an instance clears a unit of the mask, so a register that
\* deserialize accepts is accepted ever after.
C9_ObservationMonotonic ==
    [][phase = "instance" =>
          /\ Len(internal_state_mask') = Len(internal_state_mask)
          /\ \A i \in 1 .. Len(internal_state_mask) :
                 internal_state_mask[i] => internal_state_mask'[i]
          /\ \A R \in Registers :
                 AllObserved(internal_state_mask, R) => AllObserved(internal_state_mask', R)
     ]_vars

\* C9 witness: after a second observe, a unit outside that observe's range is
\* still marked from the first.
C9_Witness ==
    /\ result.op = "observe"
    /\ observes = 2
    /\ \E i \in 1 .. Len(internal_state_mask) :
           /\ internal_state_mask[i]
           /\ ~(result.address <= i - 1 /\ i - 1 < result.stop)

\* C10: registers_intersecting on a zero-length range [x, x) returns nothing.
C10_EmptyRangeEmptyResult ==
    (result.op = "registers_intersecting" /\ result.address = result.stop) =>
        result.regs = <<>>

\* C11: a Register's name is assigned once: binding a Register object that has
\* a name (under a second name, or in a second class statement) raises an
\* error, and the name it had is kept.
C11_NameAssignedOnce ==
    \A i \in 1 .. Len(bindings) :
        bindings[i].previous # "None" =>
            /\ bindings[i].raised
            /\ bindings[i].assigned = bindings[i].previous

\* The bytes of the buffer that belong to the address units of [start, stop).
BufferBytes(start, stop) ==
    PySlice(internal_state, start * address_byte_width, stop * address_byte_width)

\* C12: after observes inside the address space, every observed unit holds the
\* bytes the latest observe covering it supplied for it, and deserialize of a
\* fully observed raw-bytes register returns exactly the register's bytes of
\* the buffer.
C12_LastWriteWins ==
    /\ phase = "instance" =>
           \A k \in 0 .. (address_max - 1) :
               internal_state_mask[k + 1] => BufferBytes(k, k + 1) = supplied[k]
    /\ (result.op = "deserialize" /\ result.exc = "none") =>
           /\ result.kind = "bytes"
           /\ result.bytes = BufferBytes(result.address, result.stop)
           /\ Len(result.bytes) = (result.stop - result.address) * address_byte_width

\* C12 witness: a register of two units was observed whole, its second unit was
\* observed again alone, and deserialize returns the first unit's bytes of the
\* first payload followed by the bytes of the second payload.
C12_Witness ==
    /\ result.op = "deserialize"
    /\ result.exc = "none"
    /\ result.stop = result.address + 2
    /\ result.bytes = PySlice(DistinctBytes(2 * address_byte_width), 0, address_byte_width)
                          \o DistinctBytes(address_byte_width)

====
